---- MODULE Spec2Model ----
(***************************************************************************)
(* Model of the fake todo backend: the TodoApi store (todo-api.ts) and the *)
(* FakeSocket broadcaster (fake-socket.ts).                                *)
(*                                                                         *)
(* Every API method returns a promise and arms a timer; the timer callback *)
(* does all the work in one run-to-completion step. A call is modelled by  *)
(* two actions: the method (arms the timer: the call joins `pending`) and  *)
(* its timeout callback (one atomic step, translated statement by          *)
(* statement into a chain of operators on a frame record). Armed timers    *)
(* fire in any order: the delays are random.                               *)
(*                                                                         *)
(* A behaviour is one session of a process: it starts from whatever blob   *)
(* localStorage holds and makes up to MaxCalls calls, with any arguments.  *)
(* Spec is the store with nobody subscribed; SpecSocket adds the listeners *)
(* (one that records, one that throws, one that unsubscribes another).     *)
(* Four smaller specifications look at one part each with wider inputs:    *)
(* SpecMove (moveTodo on lists of three items, any destIndex),             *)
(* SpecBroadcast (the socket with three registrations), SpecCopy (a caller *)
(* changing what getTodoLists handed it) and SpecConcurrent (removeTodo    *)
(* and deleteList armed together).                                         *)
(***************************************************************************)
EXTENDS Integers, Sequences, FiniteSets, TLC

\* ------------------------------------------------------------------ bounds
MaxLists   == 2      \* lists in the blob a fresh process finds
MaxItems   == 2      \* items per list in that blob
MaxIdx     == 1      \* caller-supplied indices range over -1 .. MaxIdx
MaxCalls   == 2      \* API calls made in one session
MaxPending == 2      \* calls whose timer has not fired yet
MaxClients == 2      \* registrations held by the socket (SpecSocket)
MaxRegs    == 3      \* registrations held by the socket (SpecBroadcast)
MaxMoveItems == 3    \* items of a list whose items are moved about (SpecMove)

Indices == -1 .. MaxIdx

\* ------------------------------------------------------------------ values
\* Todo = {description, done}
TodoA == [description |-> "A", done |-> FALSE]
TodoB == [description |-> "B", done |-> TRUE]
TodoC == [description |-> "C", done |-> FALSE]
Todos == {TodoA, TodoB}
Names == {"work", "home"}

\* What a slot of a JavaScript array can hold besides a Todo.
Hole      == [slot |-> "empty"]       \* an index never written (sparse array)
Undefined == [slot |-> "undefined"]   \* the value undefined, stored explicitly
Null      == [slot |-> "null"]        \* JSON null, read back from storage
EmptyObj  == [slot |-> "{}"]          \* {...undefined} and {...null}

Min(a, b) == IF a < b THEN a ELSE b
Max(a, b) == IF a > b THEN a ELSE b

\* A TodoList in memory: name, the items array, and the non-index properties
\* the array object has acquired (a write to items[-1] creates property "-1").
TodoList(name, items) == [name |-> name, items |-> items, props |-> {}]

initTodos == << TodoList("my first list", << >>) >>

\* ------------------------------------------------------ Array.prototype.splice
\* splice(start, deleteCount, ...ins): a negative start counts from the end,
\* a start beyond the end is the end; returns the new array and what it removed.
splice(arr, start, deleteCount, ins) ==
    LET len  == Len(arr)
        from == IF start < 0 THEN Max(len + start, 0) ELSE Min(start, len)
        del  == Min(Max(deleteCount, 0), len - from)
    IN  [arr     |-> SubSeq(arr, 1, from) \o ins \o SubSeq(arr, from + del + 1, len),
         removed |-> SubSeq(arr, from + 1, from + del)]

\* [...todo]: spreading an array reads every index, so a hole arrives as undefined.
spread(arr) == [i \in 1 .. Len(arr) |-> IF arr[i] = Hole THEN Undefined ELSE arr[i]]

Holes(n) == [i \in 1 .. n |-> Hole]

\* items[index] = value on a JavaScript array: an index inside replaces, an
\* index at or past the end extends the array (leaving holes), and a negative
\* index is no array index at all: it sets an ordinary property.
assignIndex(list, index, value) ==
    IF index < 0
    THEN [list EXCEPT !.props = {p \in @ : p.key # index} \cup {[key |-> index, value |-> value]}]
    ELSE IF index < Len(list.items)
    THEN [list EXCEPT !.items[index + 1] = value]
    ELSE [list EXCEPT !.items = @ \o Holes(index - Len(@)) \o << value >>]

\* ------------------------------------------------------------ JSON round trip
\* JSON.stringify of an array: holes and undefined become null, non-index
\* properties are not written. The blob is held as the JSON value it denotes.
jsonItem(x) == IF x \in {Hole, Undefined, Null} THEN Null ELSE x

stringify(tds) ==
    [i \in 1 .. Len(tds) |->
        [name  |-> tds[i].name,
         items |-> [j \in 1 .. Len(tds[i].items) |-> jsonItem(tds[i].items[j])]]]

\* JSON.parse of such a blob: plain arrays, no extra properties.
parse(json) ==
    [i \in 1 .. Len(json) |-> TodoList(json[i].name, json[i].items)]

\* What localStorage holds under 'jamespot-todo-tech'.
Absent      == [kind |-> "absent"]              \* getItem returns null (or "")
Garbage     == [kind |-> "garbage"]             \* JSON.parse throws
NotAnArray  == [kind |-> "object"]              \* parses, but Array.isArray is false
Blob(json)  == [kind |-> "array", value |-> json]

\* All sequences over S of length at most n.
RECURSIVE SeqsUpTo(_, _)
SeqsUpTo(S, n) ==
    IF n = 0 THEN {<< >>}
    ELSE LET shorter == SeqsUpTo(S, n - 1)
         IN  shorter \cup {Append(q, x) : q \in shorter, x \in S}

\* The blobs a fresh process may find: nothing usable, or what an earlier
\* process saved (stringify of its lists). The saved lists hold 0 .. MaxItems
\* items, neighbours distinct: <<>>, <<A>>, <<A, B>>, ...
SavedItems(n) == [k \in 1 .. n |-> IF k % 2 = 1 THEN TodoA ELSE TodoB]

SavedLists ==
    SeqsUpTo({TodoList("work", SavedItems(n)) : n \in 0 .. MaxItems}, MaxLists)

InitialBlobs ==
    {Absent, Garbage, NotAnArray} \cup {Blob(stringify(tds)) : tds \in SavedLists}

\* TodoApi.constructor: the list sequence built from storage.
constructor(blob) ==
    IF blob.kind = "array" THEN parse(blob.value) ELSE initTodos


\* ------------------------------------------------------------------- state
VARIABLES
    todos,        \* TodoApi.todos: the list sequence in memory
    storage,      \* localStorage['jamespot-todo-tech']
    successRate,  \* TodoApi.successRate, in percent
    clients,      \* FakeSocket.clients, in registration order
    sequenceId,   \* FakeSocket.sequenceId
    pending,      \* the calls whose timer is armed, in issue order
    issued,       \* how many API calls have been made
    last,         \* what the most recent timer callback did (its promise included)
    received      \* per listener: the sequenceId of the last message it was handed

vars == << todos, storage, successRate, clients, sequenceId, pending, issued, last, received >>

\* successRate is set in the constructor and meant to be edited there
\* ("You can change the success rate in the constructor").
Rates   == {50, 100}
\* Math.random() lies in [0, 1): the draws of the model, in percent.
Randoms == {0, 50}

\* The listeners a caller may register, by what their callback does.
Listeners == {"l1", "bad", "unsub"}
\* "unsub" unsubscribes this listener from within its callback.
UnsubTarget == "l1"
NoSeq == 0 - 1      \* no message handed yet

\* ----------------------------------------------------------------- responses
buildErrorResponse(code, description) ==
    [error |-> [code |-> code, description |-> description]]

Response(v) == [response |-> v]

\* A timer callback runs on a frame: the state it works on plus what it did.
\*   settled     the resolve/reject calls made, in order (the first one wins)
\*   settledAt   for each of them, how many listener invocations preceded it
\*   dispatched  the messages handed to socket.dispatchMessage
\*   delivered   the listener invocations made, in order, each with what the
\*               listener can see at that moment: is the blob the lists in memory
\*   threw       an exception is propagating
\*   setItemThrew  localStorage.setItem raised (quota exceeded)
Frame ==
    [todos |-> todos, storage |-> storage, clients |-> clients,
     settled |-> << >>, settledAt |-> << >>, dispatched |-> << >>, delivered |-> << >>,
     threw |-> FALSE, setItemThrew |-> FALSE]

resolve(m, v) ==
    IF m.threw THEN m
    ELSE [m EXCEPT !.settled = Append(@, Response(v)),
                   !.settledAt = Append(@, Len(m.delivered))]

reject(m, code, description) ==
    IF m.threw THEN m
    ELSE [m EXCEPT !.settled = Append(@, buildErrorResponse(code, description)),
                   !.settledAt = Append(@, Len(m.delivered))]

\* catch (e) { reject(500) } around a handler body.
catch(m) ==
    IF m.threw
    THEN [m EXCEPT !.threw = FALSE,
                   !.settled = Append(@, buildErrorResponse(500, "internal error")),
                   !.settledAt = Append(@, Len(m.delivered))]
    ELSE m

\* --------------------------------------------------------------- FakeSocket
\* A variant that drops the first matching registration only.
removeFirstListenerFrom(cl, client) ==
    IF \E k \in DOMAIN cl : cl[k] = client
    THEN LET first == CHOOSE k \in DOMAIN cl :
                         cl[k] = client /\ \A j \in 1 .. k - 1 : cl[j] # client
         IN  SubSeq(cl, 1, first - 1) \o SubSeq(cl, first + 1, Len(cl))
    ELSE cl

removeListenerFrom(cl, client) == SelectSeq(cl, LAMBDA c : c # client)

\* One listener invocation: the listener is handed the message, then its own
\* code runs: it returns, throws, or unsubscribes another listener.
invoke(m, client, socketMessage) ==
    LET m1 == [m EXCEPT !.delivered =
                  Append(@, [client |-> client, message |-> socketMessage,
                             persisted |-> (m.storage = Blob(stringify(m.todos)))])]
    IN  CASE client = "bad"   -> [m1 EXCEPT !.threw = TRUE]
          [] client = "unsub" -> [m1 EXCEPT !.clients = removeListenerFrom(@, UnsubTarget)]
          [] OTHER            -> m1

\* this.clients.forEach(...): walks the array it was called on; a throw ends the walk.
RECURSIVE forEachClient(_, _, _, _)
forEachClient(arr, i, m, message) ==
    IF i > Len(arr) \/ m.threw THEN m
    ELSE forEachClient(arr, i + 1,
            invoke(m, arr[i], [sequenceId |-> sequenceId,
                                type |-> message.type, message |-> message.message]),
            message)

dispatchMessage(m, message) ==
    IF m.threw THEN m
    ELSE forEachClient(m.clients, 1, [m EXCEPT !.dispatched = Append(@, message)], message)

\* ------------------------------------------------------------------ TodoApi
\* setItem either stores the serialized lists or throws (storage full).
saveTodoToStorage(m, setItemThrows) ==
    IF m.threw THEN m
    ELSE IF setItemThrows THEN [m EXCEPT !.threw = TRUE, !.setItemThrew = TRUE]
    ELSE [m EXCEPT !.storage = Blob(stringify(m.todos))]

\* A variant that lets a draw equal to the rate pass.
isSuccessInclusive(rate, rnd) == rnd <= rate

isSuccess(rate, rnd) == rnd < rate

\* The value getTodoLists resolves with is handed to the caller, who may
\* change it: each object in it carries its reference, either a new object or
\* an object of the store (the list array, list i, its items array, item j
\* of list i).
New == [obj |-> "new", list |-> 0, index |-> 0]
StoreItem(i, j) == [obj |-> "item", list |-> i, index |-> j]

\* A variant that hands out the item of the store itself.
copyItemSameRef(x, i, j) ==
    IF x = Hole THEN Hole ELSE [ref |-> StoreItem(i, j), value |-> x]

\* todolist.items.map(todo => ({...todo})): map keeps holes, {...todo} is a
\* new object with todo's properties, and a spread of undefined or null is {}.
copyItem(x, i, j) ==
    IF x = Hole THEN Hole
    ELSE [ref |-> New, value |-> IF x \in {Undefined, Null} THEN EmptyObj ELSE x]

\* this.todos.map(todolist => ({name, items: todolist.items.map(...)})): map
\* returns a new array, the object literal is a new object.
copyLists(tds) ==
    [ref   |-> New,
     elems |-> [i \in 1 .. Len(tds) |->
                  [ref   |-> New,
                   name  |-> tds[i].name,
                   items |-> [ref   |-> New,
                              elems |-> [j \in 1 .. Len(tds[i].items) |->
                                           copyItem(tds[i].items[j], i, j)]]]]]

getTodoListsBody(m, rnd) ==
    IF isSuccess(successRate, rnd)
    THEN resolve(m, copyLists(m.todos))
    ELSE reject(m, 500, "internal error")

\* A variant that resolves with the list count after the push.
createListBodyReturnsLength(m, name, rnd, setItemThrows) ==
    IF isSuccess(successRate, rnd)
    THEN LET m1     == [m EXCEPT !.todos = Append(@, TodoList(name, << >>))]
             length == Len(m1.todos)
             m2     == saveTodoToStorage(m1, setItemThrows)
             currentTodo == m2.todos[length]
             m3     == dispatchMessage(m2,
                          [type |-> "createList",
                           message |-> [name |-> currentTodo.name, items |-> currentTodo.items]])
         IN  resolve(m3, length)
    ELSE reject(m, 500, "internal error")

createListBody(m, name, rnd, setItemThrows) ==
    IF isSuccess(successRate, rnd)
    THEN LET m1     == [m EXCEPT !.todos = Append(@, TodoList(name, << >>))]
             length == Len(m1.todos)
             m2     == saveTodoToStorage(m1, setItemThrows)
             currentTodo == m2.todos[length]
             m3     == dispatchMessage(m2,
                          [type |-> "createList",
                           message |-> [name |-> currentTodo.name, items |-> currentTodo.items]])
         IN  resolve(m3, length - 1)
    ELSE reject(m, 500, "internal error")

deleteListBody(m, listIndex, rnd, setItemThrows) ==
    IF isSuccess(successRate, rnd)
    THEN LET m1 == IF listIndex < 0 \/ listIndex >= Len(m.todos)
                   THEN reject(m, 400, "index out of bound") ELSE m
             m2 == [m1 EXCEPT !.todos = splice(@, listIndex, 1, << >>).arr]
             m3 == saveTodoToStorage(m2, setItemThrows)
             m4 == dispatchMessage(m3,
                      [type |-> "deleteList", message |-> [index |-> listIndex]])
         IN  catch(resolve(m4, TRUE))
    ELSE reject(m, 500, "internal error")

\* A variant that puts the new item first (unshift for push).
addTodoBodyUnshift(m, listIndex, item, rnd, setItemThrows) ==
    IF isSuccess(successRate, rnd)
    THEN LET m1 == IF listIndex < 0 \/ listIndex >= Len(m.todos)
                   THEN reject(m, 400, "index out of bound") ELSE m
         IN  IF listIndex + 1 \notin DOMAIN m1.todos
             THEN m1
             ELSE LET m2 == [m1 EXCEPT !.todos[listIndex + 1].items = << item >> \o @]
                      m3 == saveTodoToStorage(m2, setItemThrows)
                      m4 == dispatchMessage(m3,
                               [type |-> "addToDo",
                                message |-> [listIndex |-> listIndex, item |-> item]])
                  IN  catch(resolve(m4, TRUE))
    ELSE reject(m, 500, "internal error")

addTodoBody(m, listIndex, item, rnd, setItemThrows) ==
    IF isSuccess(successRate, rnd)
    THEN LET m1 == IF listIndex < 0 \/ listIndex >= Len(m.todos)
                   THEN reject(m, 400, "index out of bound") ELSE m
         IN  IF listIndex + 1 \notin DOMAIN m1.todos
             THEN m1                                   \* if (!currentList) return
             ELSE LET m2 == [m1 EXCEPT !.todos[listIndex + 1].items = Append(@, item)]
                      m3 == saveTodoToStorage(m2, setItemThrows)
                      m4 == dispatchMessage(m3,
                               [type |-> "addToDo",
                                message |-> [listIndex |-> listIndex, item |-> item]])
                  IN  catch(resolve(m4, TRUE))
    ELSE reject(m, 500, "internal error")

removeTodoBody(m, listIndex, todoIndex, rnd, setItemThrows) ==
    IF isSuccess(successRate, rnd)
    THEN IF listIndex < 0 \/ listIndex >= Len(m.todos)
         THEN reject(m, 400, "index out of bound")
         ELSE IF todoIndex < 0 \/ todoIndex >= Len(m.todos[listIndex + 1].items)
         THEN reject(m, 400, "index out of bound")
         ELSE LET m1 == [m EXCEPT !.todos[listIndex + 1].items = splice(@, todoIndex, 1, << >>).arr]
                  m2 == saveTodoToStorage(m1, setItemThrows)
                  m3 == dispatchMessage(m2,
                           [type |-> "removeTodo",
                            message |-> [listIndex |-> listIndex, itemIndex |-> todoIndex]])
              IN  catch(resolve(m3, TRUE))
    ELSE reject(m, 500, "internal error")

\* A variant that inserts at destIndex before it removes the source item.
moveItemsInsertFirst(items, sourceIndex, destIndex) ==
    LET inserted == splice(items, destIndex, 0, << items[sourceIndex + 1] >>).arr
    IN  splice(inserted, sourceIndex, 1, << >>).arr

\* A variant whose second splice replaces the item at destIndex
\* (deleteCount 1 for 0).
moveItemsOverwrite(items, sourceIndex, destIndex) ==
    LET todo == splice(items, sourceIndex, 1, << >>)
    IN  splice(todo.arr, destIndex, 1, spread(todo.removed)).arr

\* const todo = items.splice(sourceIndex, 1); items.splice(destIndex, 0, ...todo)
moveItems(items, sourceIndex, destIndex) ==
    LET todo == splice(items, sourceIndex, 1, << >>)
    IN  splice(todo.arr, destIndex, 0, spread(todo.removed)).arr

\* A variant whose range check lets sourceIndex = item count through.
moveTodoBodyLaxSource(m, listIndex, sourceIndex, destIndex, rnd, setItemThrows) ==
    IF isSuccess(successRate, rnd)
    THEN IF listIndex + 1 \notin DOMAIN m.todos
         THEN reject(m, 400, "Could not find todolist")
         ELSE IF listIndex < 0 \/ listIndex >= Len(m.todos)
                 \/ sourceIndex < 0 \/ sourceIndex > Len(m.todos[listIndex + 1].items)
         THEN reject(m, 400, "index out of bound")
         ELSE LET m1 == [m EXCEPT !.todos[listIndex + 1].items =
                                      moveItems(@, sourceIndex, destIndex)]
                  m2 == saveTodoToStorage(m1, setItemThrows)
                  m3 == dispatchMessage(m2,
                           [type |-> "moveTodo",
                            message |-> [listIndex |-> listIndex, sourceIndex |-> sourceIndex,
                                         destIndex |-> destIndex]])
              IN  catch(resolve(m3, TRUE))
    ELSE reject(m, 500, "internal error")

\* A variant that takes a move onto the same index for done: it resolves at
\* once, without the write to storage and without the message.
moveTodoBodySkipsSameIndex(m, listIndex, sourceIndex, destIndex, rnd, setItemThrows) ==
    IF isSuccess(successRate, rnd)
    THEN IF listIndex + 1 \notin DOMAIN m.todos
         THEN reject(m, 400, "Could not find todolist")
         ELSE IF listIndex < 0 \/ listIndex >= Len(m.todos)
                 \/ sourceIndex < 0 \/ sourceIndex >= Len(m.todos[listIndex + 1].items)
         THEN reject(m, 400, "index out of bound")
         ELSE IF sourceIndex = destIndex
         THEN resolve(m, TRUE)
         ELSE LET m1 == [m EXCEPT !.todos[listIndex + 1].items =
                                      moveItems(@, sourceIndex, destIndex)]
                  m2 == saveTodoToStorage(m1, setItemThrows)
                  m3 == dispatchMessage(m2,
                           [type |-> "moveTodo",
                            message |-> [listIndex |-> listIndex, sourceIndex |-> sourceIndex,
                                         destIndex |-> destIndex]])
              IN  catch(resolve(m3, TRUE))
    ELSE reject(m, 500, "internal error")

moveTodoBody(m, listIndex, sourceIndex, destIndex, rnd, setItemThrows) ==
    IF isSuccess(successRate, rnd)
    THEN IF listIndex + 1 \notin DOMAIN m.todos
         THEN reject(m, 400, "Could not find todolist")
         ELSE IF listIndex < 0 \/ listIndex >= Len(m.todos)
                 \/ sourceIndex < 0 \/ sourceIndex >= Len(m.todos[listIndex + 1].items)
         THEN reject(m, 400, "index out of bound")
         ELSE LET m1 == [m EXCEPT !.todos[listIndex + 1].items =
                                      moveItems(@, sourceIndex, destIndex)]
                  m2 == saveTodoToStorage(m1, setItemThrows)
                  m3 == dispatchMessage(m2,
                           [type |-> "moveTodo",
                            message |-> [listIndex |-> listIndex, sourceIndex |-> sourceIndex,
                                         destIndex |-> destIndex]])
              IN  catch(resolve(m3, TRUE))
    ELSE reject(m, 500, "internal error")

editTodoBody(m, listIndex, itemIndex, newValue, rnd, setItemThrows) ==
    IF isSuccess(successRate, rnd)
    THEN IF listIndex + 1 \notin DOMAIN m.todos
         THEN reject(m, 400, "could not find todolist")
         ELSE LET m1 == IF listIndex < 0 \/ listIndex >= Len(m.todos)
                           \/ itemIndex < 0 \/ itemIndex >= Len(m.todos[listIndex + 1].items)
                        THEN reject(m, 400, "index out of bound") ELSE m
                  m2 == [m1 EXCEPT !.todos[listIndex + 1] = assignIndex(@, itemIndex, newValue)]
                  m3 == saveTodoToStorage(m2, setItemThrows)
                  m4 == dispatchMessage(m3,
                           [type |-> "editTodo",
                            message |-> [listIndex |-> listIndex, itemIndex |-> itemIndex,
                                         newValue |-> newValue]])
              IN  catch(resolve(m4, TRUE))
    ELSE reject(m, 500, "internal error")

\* -------------------------------------------------------------------- Init
NoCall == [call |-> [op |-> "none"], before |-> << >>, settled |-> << >>, settledAt |-> << >>,
           dispatched |-> << >>, delivered |-> << >>,
           uncaught |-> FALSE, setItemThrew |-> FALSE]

Init ==
    /\ storage \in InitialBlobs
    /\ todos = constructor(storage)
    /\ successRate \in Rates
    /\ clients = << >>
    /\ sequenceId = 0
    /\ pending = << >>
    /\ issued = 0
    /\ last = NoCall
    /\ received = [c \in Listeners |-> NoSeq]

\* ------------------------------------------------- the methods: arm the timer
\* new Promise(... setTimeout(callback, delay)): the call joins the armed
\* timers; nothing else happens until its timer fires.
Arm(call) ==
    /\ issued < MaxCalls
    /\ Len(pending) < MaxPending
    /\ pending' = Append(pending, call)
    /\ issued' = issued + 1

getTodoLists ==
    /\ Arm([op |-> "getTodoLists"])
    /\ UNCHANGED << todos, storage, successRate, clients, sequenceId, last, received >>

createList(name) ==
    /\ Arm([op |-> "createList", name |-> name])
    /\ UNCHANGED << todos, storage, successRate, clients, sequenceId, last, received >>

deleteList(listIndex) ==
    /\ Arm([op |-> "deleteList", listIndex |-> listIndex])
    /\ UNCHANGED << todos, storage, successRate, clients, sequenceId, last, received >>

addTodo(listIndex, item) ==
    /\ Arm([op |-> "addTodo", listIndex |-> listIndex, item |-> item])
    /\ UNCHANGED << todos, storage, successRate, clients, sequenceId, last, received >>

removeTodo(listIndex, todoIndex) ==
    /\ Arm([op |-> "removeTodo", listIndex |-> listIndex, todoIndex |-> todoIndex])
    /\ UNCHANGED << todos, storage, successRate, clients, sequenceId, last, received >>

moveTodo(listIndex, sourceIndex, destIndex) ==
    /\ Arm([op |-> "moveTodo", listIndex |-> listIndex, sourceIndex |-> sourceIndex,
            destIndex |-> destIndex])
    /\ UNCHANGED << todos, storage, successRate, clients, sequenceId, last, received >>

editTodo(listIndex, itemIndex, newValue) ==
    /\ Arm([op |-> "editTodo", listIndex |-> listIndex, itemIndex |-> itemIndex,
            newValue |-> newValue])
    /\ UNCHANGED << todos, storage, successRate, clients, sequenceId, last, received >>

\* ------------------------------------------ the timer callbacks: one step each
RemoveAt(seq, i) == SubSeq(seq, 1, i - 1) \o SubSeq(seq, i + 1, Len(seq))

\* The sequenceId a listener was last handed, after the deliveries of a frame.
RECURSIVE lastHanded(_, _, _)
lastHanded(delivered, client, before) ==
    IF delivered = << >> THEN before
    ELSE lastHanded(Tail(delivered), client,
                    IF Head(delivered).client = client
                    THEN Head(delivered).message.sequenceId ELSE before)

\* A variant in which the timers fire in the order they were armed.
FiredInIssueOrder(i, m) ==
    /\ i = 1
    /\ todos' = m.todos
    /\ storage' = m.storage
    /\ clients' = m.clients
    /\ pending' = Tail(pending)
    /\ last' = [call |-> pending[i], before |-> todos,
                settled |-> m.settled, settledAt |-> m.settledAt,
                dispatched |-> m.dispatched, delivered |-> m.delivered,
                uncaught |-> m.threw, setItemThrew |-> m.setItemThrew]
    /\ received' = [c \in Listeners |-> lastHanded(m.delivered, c, received[c])]
    /\ UNCHANGED << successRate, sequenceId, issued >>

\* The callback of pending[i] has run and left frame m.
Fired(i, m) ==
    /\ todos' = m.todos
    /\ storage' = m.storage
    /\ clients' = m.clients
    /\ pending' = RemoveAt(pending, i)
    /\ last' = [call |-> pending[i], before |-> todos,
                settled |-> m.settled, settledAt |-> m.settledAt,
                dispatched |-> m.dispatched, delivered |-> m.delivered,
                uncaught |-> m.threw, setItemThrew |-> m.setItemThrew]
    /\ received' = [c \in Listeners |-> lastHanded(m.delivered, c, received[c])]
    /\ UNCHANGED << successRate, sequenceId, issued >>

getTodoListsTimeout(i, rnd) ==
    /\ pending[i].op = "getTodoLists"
    /\ Fired(i, getTodoListsBody(Frame, rnd))

createListTimeout(i, rnd, setItemThrows) ==
    /\ pending[i].op = "createList"
    /\ Fired(i, createListBody(Frame, pending[i].name, rnd, setItemThrows))

deleteListTimeout(i, rnd, setItemThrows) ==
    /\ pending[i].op = "deleteList"
    /\ Fired(i, deleteListBody(Frame, pending[i].listIndex, rnd, setItemThrows))

addTodoTimeout(i, rnd, setItemThrows) ==
    /\ pending[i].op = "addTodo"
    /\ Fired(i, addTodoBody(Frame, pending[i].listIndex, pending[i].item,
                                    rnd, setItemThrows))

removeTodoTimeout(i, rnd, setItemThrows) ==
    /\ pending[i].op = "removeTodo"
    /\ Fired(i, removeTodoBody(Frame, pending[i].listIndex, pending[i].todoIndex,
                                       rnd, setItemThrows))

moveTodoTimeout(i, rnd, setItemThrows) ==
    /\ pending[i].op = "moveTodo"
    /\ Fired(i, moveTodoBody(Frame, pending[i].listIndex, pending[i].sourceIndex,
                                     pending[i].destIndex, rnd, setItemThrows))

editTodoTimeout(i, rnd, setItemThrows) ==
    /\ pending[i].op = "editTodo"
    /\ Fired(i, editTodoBody(Frame, pending[i].listIndex, pending[i].itemIndex,
                                     pending[i].newValue, rnd, setItemThrows))

\* ------------------------------------------------- FakeSocket, called directly
addListener(client) ==
    /\ clients' = Append(clients, client)
    /\ UNCHANGED << todos, storage, successRate, sequenceId, pending, issued, last, received >>

removeListener(client) ==
    /\ clients' = removeListenerFrom(clients, client)
    /\ UNCHANGED << todos, storage, successRate, sequenceId, pending, issued, last, received >>

\* ------------------------------------- the caller, changing what it was handed
\* The caller holds the value its last getTodoLists call resolved with.
Held == last.settled[1].response

HoldsLists ==
    /\ last.call.op = "getTodoLists"
    /\ last.settled # << >>
    /\ "response" \in DOMAIN last.settled[1]

Hold(r) ==
    /\ last' = [last EXCEPT !.settled[1].response = r]
    /\ UNCHANGED << storage, successRate, clients, sequenceId, pending, issued, received >>

\* A write through a reference reaches the store iff the reference is one
\* of the store's objects.
\* lists[i].items[j].description = ...; .done = ...
callerEditsItem(i, j) ==
    /\ HoldsLists
    /\ i \in DOMAIN Held.elems
    /\ j \in DOMAIN Held.elems[i].items.elems
    /\ Held.elems[i].items.elems[j] # Hole
    /\ Hold([Held EXCEPT !.elems[i].items.elems[j].value = TodoC])
    /\ LET ref == Held.elems[i].items.elems[j].ref
       IN  todos' = IF ref.obj = "item"
                    THEN [todos EXCEPT ![ref.list].items[ref.index] = TodoC]
                    ELSE todos

\* lists[i].items.push(...)
callerPushesItem(i) ==
    /\ HoldsLists
    /\ i \in DOMAIN Held.elems
    /\ Len(Held.elems[i].items.elems) <= MaxItems
    /\ Hold([Held EXCEPT !.elems[i].items.elems = Append(@, [ref |-> New, value |-> TodoC])])
    /\ LET ref == Held.elems[i].items.ref
       IN  todos' = IF ref.obj = "items"
                    THEN [todos EXCEPT ![ref.list].items = Append(@, TodoC)]
                    ELSE todos

\* lists[i].name = ...
callerRenamesList(i) ==
    /\ HoldsLists
    /\ i \in DOMAIN Held.elems
    /\ Hold([Held EXCEPT !.elems[i].name = "mine"])
    /\ LET ref == Held.elems[i].ref
       IN  todos' = IF ref.obj = "list"
                    THEN [todos EXCEPT ![ref.list].name = "mine"]
                    ELSE todos

\* lists.pop()
callerPopsList ==
    /\ HoldsLists
    /\ Held.elems # << >>
    /\ Hold([Held EXCEPT !.elems = SubSeq(@, 1, Len(@) - 1)])
    /\ todos' = IF Held.ref.obj = "lists"
                 THEN SubSeq(todos, 1, Len(todos) - 1)
                 ELSE todos

\* The store, driven by callers, with nobody subscribed to the socket.
Next ==
    \/ getTodoLists
    \/ \E name \in Names : createList(name)
    \/ \E listIndex \in Indices : deleteList(listIndex)
    \/ \E listIndex \in Indices, item \in Todos : addTodo(listIndex, item)
    \/ \E listIndex \in Indices, todoIndex \in Indices : removeTodo(listIndex, todoIndex)
    \/ \E listIndex \in Indices, sourceIndex \in Indices, destIndex \in Indices :
          moveTodo(listIndex, sourceIndex, destIndex)
    \/ \E listIndex \in Indices, itemIndex \in Indices, newValue \in Todos :
          editTodo(listIndex, itemIndex, newValue)
    \/ \E i \in DOMAIN pending, rnd \in Randoms : getTodoListsTimeout(i, rnd)
    \/ \E i \in DOMAIN pending, rnd \in Randoms, setItemThrows \in BOOLEAN :
          createListTimeout(i, rnd, setItemThrows)
    \/ \E i \in DOMAIN pending, rnd \in Randoms, setItemThrows \in BOOLEAN :
          deleteListTimeout(i, rnd, setItemThrows)
    \/ \E i \in DOMAIN pending, rnd \in Randoms, setItemThrows \in BOOLEAN :
          addTodoTimeout(i, rnd, setItemThrows)
    \/ \E i \in DOMAIN pending, rnd \in Randoms, setItemThrows \in BOOLEAN :
          removeTodoTimeout(i, rnd, setItemThrows)
    \/ \E i \in DOMAIN pending, rnd \in Randoms, setItemThrows \in BOOLEAN :
          moveTodoTimeout(i, rnd, setItemThrows)
    \/ \E i \in DOMAIN pending, rnd \in Randoms, setItemThrows \in BOOLEAN :
          editTodoTimeout(i, rnd, setItemThrows)

Spec == Init /\ [][Next]_vars

\* The store and the socket together: listeners come and go while the calls
\* run. The process starts from the default list or from one saved list, with
\* the success rate the constructor sets.
InitSocket ==
    /\ Init
    /\ storage \in {Absent, Blob(stringify(<< TodoList("work", SavedItems(Min(MaxItems, 2))) >>))}
    /\ successRate = 100

NextSocket ==
    \/ \E name \in Names : createList(name)
    \/ \E listIndex \in Indices : deleteList(listIndex)
    \/ \E listIndex \in Indices, item \in Todos : addTodo(listIndex, item)
    \/ \E listIndex \in Indices, todoIndex \in Indices : removeTodo(listIndex, todoIndex)
    \/ \E listIndex \in Indices, sourceIndex \in Indices, destIndex \in Indices :
          moveTodo(listIndex, sourceIndex, destIndex)
    \/ \E listIndex \in Indices, itemIndex \in Indices, newValue \in Todos :
          editTodo(listIndex, itemIndex, newValue)
    \/ \E i \in DOMAIN pending, rnd \in Randoms, setItemThrows \in BOOLEAN :
          createListTimeout(i, rnd, setItemThrows)
    \/ \E i \in DOMAIN pending, rnd \in Randoms, setItemThrows \in BOOLEAN :
          deleteListTimeout(i, rnd, setItemThrows)
    \/ \E i \in DOMAIN pending, rnd \in Randoms, setItemThrows \in BOOLEAN :
          addTodoTimeout(i, rnd, setItemThrows)
    \/ \E i \in DOMAIN pending, rnd \in Randoms, setItemThrows \in BOOLEAN :
          removeTodoTimeout(i, rnd, setItemThrows)
    \/ \E i \in DOMAIN pending, rnd \in Randoms, setItemThrows \in BOOLEAN :
          moveTodoTimeout(i, rnd, setItemThrows)
    \/ \E i \in DOMAIN pending, rnd \in Randoms, setItemThrows \in BOOLEAN :
          editTodoTimeout(i, rnd, setItemThrows)
    \/ \E client \in Listeners : Len(clients) < MaxClients /\ addListener(client)
    \/ \E client \in Listeners : removeListener(client)

SpecSocket == InitSocket /\ [][NextSocket]_vars

\* Calls that touch the same lists, armed at the same time: removeTodo and
\* deleteList, their timers firing in any order.
NextConcurrent ==
    \/ \E listIndex \in Indices : deleteList(listIndex)
    \/ \E listIndex \in Indices, todoIndex \in Indices : removeTodo(listIndex, todoIndex)
    \/ \E i \in DOMAIN pending, rnd \in Randoms, setItemThrows \in BOOLEAN :
          deleteListTimeout(i, rnd, setItemThrows)
    \/ \E i \in DOMAIN pending, rnd \in Randoms, setItemThrows \in BOOLEAN :
          removeTodoTimeout(i, rnd, setItemThrows)

SpecConcurrent == Init /\ [][NextConcurrent]_vars

\* A caller that reads the lists and changes what it was handed.
NextCopy ==
    \/ getTodoLists
    \/ \E i \in DOMAIN pending, rnd \in Randoms : getTodoListsTimeout(i, rnd)
    \/ \E i \in 1 .. MaxLists, j \in 1 .. MaxItems + 1 : callerEditsItem(i, j)
    \/ \E i \in 1 .. MaxLists : callerPushesItem(i)
    \/ \E i \in 1 .. MaxLists : callerRenamesList(i)
    \/ callerPopsList

SpecCopy == Init /\ [][NextCopy]_vars

\* The socket with up to MaxRegs registrations: listeners come and go while
\* createList and addTodo calls publish their messages.
InitBroadcast ==
    /\ Init
    /\ storage = Absent
    /\ successRate = 100

NextBroadcast ==
    \/ \E name \in Names : createList(name)
    \/ \E listIndex \in Indices, item \in Todos : addTodo(listIndex, item)
    \/ \E i \in DOMAIN pending, rnd \in Randoms, setItemThrows \in BOOLEAN :
          createListTimeout(i, rnd, setItemThrows)
    \/ \E i \in DOMAIN pending, rnd \in Randoms, setItemThrows \in BOOLEAN :
          addTodoTimeout(i, rnd, setItemThrows)
    \/ \E client \in Listeners : Len(clients) < MaxRegs /\ addListener(client)
    \/ \E client \in Listeners : removeListener(client)

SpecBroadcast == InitBroadcast /\ [][NextBroadcast]_vars

\* The items of one list moved about: the process starts from saved lists of
\* up to MaxMoveItems distinct items (<<A, B, C>>) and makes moveTodo calls
\* with a destIndex from before the start to past the end.
MoveItems(n) ==
    [k \in 1 .. n |-> IF k % 3 = 1 THEN TodoA ELSE IF k % 3 = 2 THEN TodoB ELSE TodoC]

MoveSources == 0 .. MaxMoveItems
MoveDests   == -1 .. MaxMoveItems + 1

InitMove ==
    /\ storage \in {Blob(stringify(tds)) :
                       tds \in SeqsUpTo({TodoList("work", MoveItems(n)) : n \in 0 .. MaxMoveItems},
                                        MaxLists)}
    /\ todos = constructor(storage)
    /\ successRate = 100
    /\ clients = << >>
    /\ sequenceId = 0
    /\ pending = << >>
    /\ issued = 0
    /\ last = NoCall
    /\ received = [c \in Listeners |-> NoSeq]

NextMove ==
    \/ \E listIndex \in Indices, sourceIndex \in MoveSources, destIndex \in MoveDests :
          moveTodo(listIndex, sourceIndex, destIndex)
    \/ \E i \in DOMAIN pending, rnd \in Randoms, setItemThrows \in BOOLEAN :
          moveTodoTimeout(i, rnd, setItemThrows)

SpecMove == InitMove /\ [][NextMove]_vars

\* ======================================================================
\* Properties
\* ======================================================================
\* How the promise of the last callback ended: the first settle call wins.
Rejected(l, code) ==
    /\ l.settled # << >>
    /\ "error" \in DOMAIN l.settled[1]
    /\ l.settled[1].error.code = code

Resolved(l) == l.settled # << >> /\ "response" \in DOMAIN l.settled[1]

ResolvedWith(l, v) == Resolved(l) /\ l.settled[1].response = v

ValidList(tds, listIndex) == listIndex >= 0 /\ listIndex < Len(tds)

ValidItem(tds, listIndex, itemIndex) ==
    /\ ValidList(tds, listIndex)
    /\ itemIndex >= 0
    /\ itemIndex < Len(tds[listIndex + 1].items)

\* The step is the timer callback of call pending[i]: it leaves pending and
\* its promise is the one `last` holds.
Settles(i) ==
    /\ Len(pending') < Len(pending)
    /\ last'.call = pending[i]

\* The step is the timer callback of a mutating call / of any call, run with
\* these draws. (Settles(i) is implied by the callbacks; stated first, it
\* lets every other step be passed over without running a callback.)
MutatingTimeout(i, rnd, setItemThrows) ==
    /\ Settles(i)
    /\ \/ createListTimeout(i, rnd, setItemThrows)
       \/ deleteListTimeout(i, rnd, setItemThrows)
       \/ addTodoTimeout(i, rnd, setItemThrows)
       \/ removeTodoTimeout(i, rnd, setItemThrows)
       \/ moveTodoTimeout(i, rnd, setItemThrows)
       \/ editTodoTimeout(i, rnd, setItemThrows)

AnyTimeout(i, rnd, setItemThrows) ==
    /\ Settles(i)
    /\ getTodoListsTimeout(i, rnd) \/ MutatingTimeout(i, rnd, setItemThrows)

\* Nothing observable happened besides the promise: lists, blob, broadcasts.
NoEffect ==
    /\ todos' = todos
    /\ storage' = storage
    /\ last'.dispatched = << >>
    /\ last'.delivered = << >>

\* C1: deleteList(i) with i outside [0, list count) rejects with 400, leaves
\* the list sequence and the persisted blob unchanged and dispatches nothing.
C1_DeleteListOutOfRangeRejects ==
    [][\A i \in DOMAIN pending, rnd \in Randoms, setItemThrows \in BOOLEAN :
          ( /\ pending[i].op = "deleteList"
            /\ rnd < successRate
            /\ ~ValidList(todos, pending[i].listIndex)
            /\ MutatingTimeout(i, rnd, setItemThrows) )
          => (Rejected(last', 400) /\ NoEffect)]_vars

\* C2: editItem with a valid listIndex and an itemIndex outside [0, item
\* count) rejects with 400 before any mutation: items, blob and broadcast
\* stream are as before the call.
C2_EditItemOutOfRangeRejects ==
    [][\A i \in DOMAIN pending, rnd \in Randoms, setItemThrows \in BOOLEAN :
          ( /\ pending[i].op = "editTodo"
            /\ rnd < successRate
            /\ ValidList(todos, pending[i].listIndex)
            /\ ~ValidItem(todos, pending[i].listIndex, pending[i].itemIndex)
            /\ MutatingTimeout(i, rnd, setItemThrows) )
          => (Rejected(last', 400) /\ NoEffect)]_vars

\* The call's indices are in range for the lists tds (destIndex is free).
ValidCall(c, tds) ==
    CASE c.op = "deleteList" -> ValidList(tds, c.listIndex)
      [] c.op = "addTodo"    -> ValidList(tds, c.listIndex)
      [] c.op = "removeTodo" -> ValidItem(tds, c.listIndex, c.todoIndex)
      [] c.op = "moveTodo"   -> ValidItem(tds, c.listIndex, c.sourceIndex)
      [] c.op = "editTodo"   -> ValidItem(tds, c.listIndex, c.itemIndex)
      [] OTHER               -> TRUE

\* The message a mutating call announces: its kind, carrying its arguments.
MessageOf(c) ==
    CASE c.op = "createList" ->
            [type |-> "createList", message |-> [name |-> c.name, items |-> << >>]]
      [] c.op = "deleteList" ->
            [type |-> "deleteList", message |-> [index |-> c.listIndex]]
      [] c.op = "addTodo" ->
            [type |-> "addToDo", message |-> [listIndex |-> c.listIndex, item |-> c.item]]
      [] c.op = "removeTodo" ->
            [type |-> "removeTodo",
             message |-> [listIndex |-> c.listIndex, itemIndex |-> c.todoIndex]]
      [] c.op = "moveTodo" ->
            [type |-> "moveTodo",
             message |-> [listIndex |-> c.listIndex, sourceIndex |-> c.sourceIndex,
                          destIndex |-> c.destIndex]]
      [] c.op = "editTodo" ->
            [type |-> "editTodo",
             message |-> [listIndex |-> c.listIndex, itemIndex |-> c.itemIndex,
                          newValue |-> c.newValue]]

\* C3: if a registered listener throws while a mutation's message is being
\* delivered, every registered listener after it is still handed the message
\* and the call still resolves with its success response.
C3_ListenerFailureSwallowed ==
    [][\A i \in DOMAIN pending, rnd \in Randoms, setItemThrows \in BOOLEAN :
          ( /\ ValidCall(pending[i], todos)
            /\ last'.dispatched # << >>
            /\ \E k \in DOMAIN clients : clients[k] = "bad"
            /\ MutatingTimeout(i, rnd, setItemThrows) )
          => ( /\ Len(last'.delivered) = Len(clients)
               /\ Resolved(last') )]_vars

\* C4: if the persistence write fails in a call that passed its sample and
\* its validation, the call fails with 500, the lists are as before the call
\* and nothing is broadcast.
C4_TransactionalCommit ==
    [][\A i \in DOMAIN pending, rnd \in Randoms, setItemThrows \in BOOLEAN :
          ( /\ rnd < successRate
            /\ ValidCall(pending[i], todos)
            /\ last'.setItemThrew
            /\ MutatingTimeout(i, rnd, setItemThrows) )
          => ( /\ Rejected(last', 500)
               /\ todos' = todos
               /\ last'.dispatched = << >> )]_vars

\* The names and the array elements of the lists, slot by slot (the
\* non-index properties of the arrays left aside).
Elements(tds) ==
    [i \in 1 .. Len(tds) |-> [name |-> tds[i].name, items |-> tds[i].items]]

\* C5: after any mutating call that resolves successfully, the persisted
\* blob deserializes to exactly the list sequence in memory.
C5_WriteThrough ==
    [][\A i \in DOMAIN pending, rnd \in Randoms, setItemThrows \in BOOLEAN :
          (MutatingTimeout(i, rnd, setItemThrows) /\ Resolved(last'))
          => ( /\ storage'.kind = "array"
               /\ Elements(parse(storage'.value)) = Elements(todos') )]_vars

\* C6: a mutating call dispatches a message iff it resolves with success;
\* a resolved call dispatched exactly its own message, a rejected call none.
C6_BroadcastIffSuccess ==
    [][\A i \in DOMAIN pending, rnd \in Randoms, setItemThrows \in BOOLEAN :
          MutatingTimeout(i, rnd, setItemThrows)
          => IF Resolved(last')
             THEN last'.dispatched = << MessageOf(pending[i]) >>
             ELSE last'.dispatched = << >>]_vars

\* C7: for every operation, when the success-rate sample fails the call
\* rejects with 500 and lists, blob and broadcast stream are unchanged,
\* whatever the arguments.
C7_SampledFailureHasNoEffect ==
    [][\A i \in DOMAIN pending, rnd \in Randoms, setItemThrows \in BOOLEAN :
          (rnd >= successRate /\ AnyTimeout(i, rnd, setItemThrows))
          => (Rejected(last', 500) /\ NoEffect)]_vars

\* A call failed its sample: without listeners and without a storage fault a
\* 500 has no other source.
C7_Witness ==
    /\ successRate = 50
    /\ last.call.op = "moveTodo"
    /\ ValidCall(last.call, todos)
    /\ Rejected(last, 500)
    /\ ~last.setItemThrew

\* C8: for any listener, of two events published one after the other the
\* later is delivered with a strictly greater sequenceId.
C8_SequenceIdsIncrease ==
    [][\A i \in DOMAIN pending, rnd \in Randoms, setItemThrows \in BOOLEAN :
          MutatingTimeout(i, rnd, setItemThrows)
          => \A k \in DOMAIN last'.delivered :
                received[last'.delivered[k].client] # NoSeq
                => last'.delivered[k].message.sequenceId
                      > received[last'.delivered[k].client]]_vars

\* C9: removeItem and moveItem with listIndex outside [0, list count), or
\* with itemIndex/sourceIndex outside [0, item count of that list), reject
\* with 400, leave lists and blob unchanged and dispatch no message.
C9_RemoveMoveOutOfRangeReject ==
    [][\A i \in DOMAIN pending, rnd \in Randoms, setItemThrows \in BOOLEAN :
          ( /\ pending[i].op \in {"removeTodo", "moveTodo"}
            /\ rnd < successRate
            /\ ~ValidCall(pending[i], todos)
            /\ MutatingTimeout(i, rnd, setItemThrows) )
          => (Rejected(last', 400) /\ NoEffect)]_vars

\* moveItem was rejected for a sourceIndex out of range in a list that exists
\* and holds items.
C9_Witness ==
    /\ last.call.op = "moveTodo"
    /\ Rejected(last, 400)
    /\ ValidList(todos, last.call.listIndex)
    /\ todos[last.call.listIndex + 1].items # << >>
    /\ ~ValidItem(todos, last.call.listIndex, last.call.sourceIndex)

\* C10: addItem with listIndex outside [0, list count) rejects with 400,
\* appends nothing, writes no blob and dispatches nothing; with a valid
\* listIndex (and a storage that takes the write) it appends a copy of item
\* at the end of exactly that list and resolves true.
C10_AddItem ==
    [][\A i \in DOMAIN pending, rnd \in Randoms, setItemThrows \in BOOLEAN :
          ( /\ pending[i].op = "addTodo"
            /\ rnd < successRate
            /\ ~setItemThrows
            /\ MutatingTimeout(i, rnd, setItemThrows) )
          => IF ~ValidList(todos, pending[i].listIndex)
             THEN Rejected(last', 400) /\ NoEffect
             ELSE /\ todos' = [todos EXCEPT ![pending[i].listIndex + 1].items =
                                               Append(@, pending[i].item)]
                  /\ ResolvedWith(last', TRUE)]_vars

\* What reading a slot by its index yields: an index never written reads as
\* undefined.
read(x) == IF x = Hole THEN Undefined ELSE x

readAll(items) == [k \in 1 .. Len(items) |-> read(items[k])]

\* seq with x put in so that k elements precede it (all of them if k >= Len).
InsertAt(seq, k, x) ==
    LET at == Min(k, Len(seq))
    IN  SubSeq(seq, 1, at) \o << x >> \o SubSeq(seq, at + 1, Len(seq))

\* C11: a successful moveItem(listIndex, sourceIndex, destIndex) leaves the
\* list holding the sequence obtained by removing the item at sourceIndex and
\* inserting it at position destIndex of the shortened sequence (last if
\* destIndex is at or beyond its length); every other list is unchanged.
C11_MoveReordersList ==
    [][\A i \in DOMAIN pending, rnd \in Randoms, setItemThrows \in BOOLEAN :
          ( /\ pending[i].op = "moveTodo"
            /\ pending[i].destIndex >= 0
            /\ Resolved(last')
            /\ MutatingTimeout(i, rnd, setItemThrows) )
          => LET c == pending[i]
                 items == todos[c.listIndex + 1].items
             IN  /\ ValidItem(todos, c.listIndex, c.sourceIndex)
                 /\ Len(todos') = Len(todos)
                 /\ \A l \in DOMAIN todos :
                       IF l = c.listIndex + 1
                       THEN /\ todos'[l].name = todos[l].name
                            /\ readAll(todos'[l].items) =
                                  InsertAt(RemoveAt(readAll(items), c.sourceIndex + 1),
                                           c.destIndex, read(items[c.sourceIndex + 1]))
                       ELSE todos'[l] = todos[l]]_vars

\* [A, B, C] with moveItem(0, 0, 2) has become [B, C, A].
C11_Witness ==
    /\ last.call = [op |-> "moveTodo", listIndex |-> 0, sourceIndex |-> 0, destIndex |-> 2]
    /\ Resolved(last)
    /\ last.before[1].items = << TodoA, TodoB, TodoC >>
    /\ todos[1].items = << TodoB, TodoC, TodoA >>

\* C12: a successful createList(name) appends one list {name, items: []} at
\* the end, leaves the existing lists unchanged, resolves with the index of
\* the new list (the list count before the call) and dispatches CreateList
\* with that name and empty items.
C12_CreateListAppends ==
    [][\A i \in DOMAIN pending, rnd \in Randoms, setItemThrows \in BOOLEAN :
          ( /\ pending[i].op = "createList"
            /\ Resolved(last')
            /\ MutatingTimeout(i, rnd, setItemThrows) )
          => ( /\ todos' = todos \o << [name |-> pending[i].name, items |-> << >>, props |-> {}] >>
               /\ ResolvedWith(last', Len(todos))
               /\ last'.dispatched =
                     << [type |-> "createList",
                         message |-> [name |-> pending[i].name, items |-> << >>]] >> )]_vars

\* From an empty list sequence (the blob "[]"), createList("work") resolved
\* with index 0.
C12_Witness ==
    /\ last.call = [op |-> "createList", name |-> "work"]
    /\ last.before = << >>
    /\ ResolvedWith(last, 0)
    /\ Len(todos) = 1
    /\ todos[1].name = "work"
    /\ todos[1].items = << >>

\* The listeners invoked by the last callback, in the order of invocation.
Invoked(l) == [k \in 1 .. Len(l.delivered) |-> l.delivered[k].client]

\* C13: a publish invokes the listeners in registration order, each exactly
\* once per registration: the sequence of invocations is the sequence of
\* registrations (a listener registered twice is invoked twice, an earlier
\* registration before a later one).
C13_DeliveryInRegistrationOrder ==
    [][\A i \in DOMAIN pending, rnd \in Randoms, setItemThrows \in BOOLEAN :
          ( /\ last'.dispatched # << >>
            /\ MutatingTimeout(i, rnd, setItemThrows) )
          => Invoked(last') = clients]_vars

Registered(cl, client) == \E k \in DOMAIN cl : cl[k] = client

\* C14: when a listener unsubscribes another (registered) listener from
\* within its callback during a publish, the publish completes without error
\* (every registration is invoked, nothing is thrown at the caller), and the
\* unsubscribed listener is handed no event published after the removal: it
\* is registered no more, and a publish invokes registered listeners only.
C14_UnsubscribeWithinCallback ==
    [][\A i \in DOMAIN pending, rnd \in Randoms, setItemThrows \in BOOLEAN :
          ( /\ last'.dispatched # << >>
            /\ MutatingTimeout(i, rnd, setItemThrows) )
          => /\ \A k \in DOMAIN last'.delivered : Registered(clients, last'.delivered[k].client)
             /\ ( /\ Registered(clients, UnsubTarget)
                  /\ Registered(Invoked(last'), "unsub") )
                => ( /\ Invoked(last') = clients
                     /\ ~last'.uncaught
                     /\ ~Rejected(last', 500)
                     /\ ~Registered(clients', UnsubTarget) )]_vars

\* a can be obtained from b by deleting elements (order kept).
RECURSIVE IsSubSeq(_, _)
IsSubSeq(a, b) ==
    IF a = << >> THEN TRUE
    ELSE IF b = << >> THEN FALSE
    ELSE IF Head(a) = Head(b) THEN IsSubSeq(Tail(a), Tail(b))
    ELSE IsSubSeq(a, Tail(b))

Count(cl, client) == Cardinality({k \in DOMAIN cl : cl[k] = client})

\* The registrations after are those before with every registration of
\* client gone: none of client is left, those of the others are all there,
\* in their order.
Unsubscribed(before, after, client) ==
    /\ ~Registered(after, client)
    /\ IsSubSeq(after, before)
    /\ Len(after) = Len(before) - Count(before, client)
    /\ ~Registered(before, client) => after = before

\* C15: unsubscribe(l) removes every registration of l, leaves the
\* registrations and the relative order of the other listeners unchanged and
\* changes nothing when l is not registered; l is handed no later event (a
\* publish invokes registered listeners only). Both for a direct call and
\* for the call a listener makes within its callback.
C15_UnsubscribeRemovesAll ==
    [][ /\ \A client \in Listeners :
              removeListener(client) => Unsubscribed(clients, clients', client)
        /\ \A i \in DOMAIN pending, rnd \in Randoms, setItemThrows \in BOOLEAN :
              MutatingTimeout(i, rnd, setItemThrows)
              => /\ \A k \in DOMAIN last'.delivered :
                       Registered(clients, last'.delivered[k].client)
                 /\ IF Registered(Invoked(last'), "unsub")
                    THEN Unsubscribed(clients, clients', UnsubTarget)
                    ELSE clients' = clients ]_vars

\* l1 was registered twice around another listener, which unsubscribed it
\* during a publish: both registrations are gone, the other one is left.
C15_Witness ==
    /\ Invoked(last) = << "l1", "unsub", "l1" >>
    /\ clients = << "unsub" >>

\* The step is a change the caller makes to the value it holds.
CallerStep ==
    \/ \E i \in 1 .. MaxLists, j \in 1 .. MaxItems + 1 : callerEditsItem(i, j)
    \/ \E i \in 1 .. MaxLists : callerPushesItem(i) \/ callerRenamesList(i)
    \/ callerPopsList

\* What a listAll would resolve with: the names and items of the lists.
Listed(r) ==
    [i \in 1 .. Len(r.elems) |->
        [name  |-> r.elems[i].name,
         items |-> [j \in 1 .. Len(r.elems[i].items.elems) |->
                      IF r.elems[i].items.elems[j] = Hole THEN Hole
                      ELSE r.elems[i].items.elems[j].value]]]

\* C16: listAll changes neither the lists, nor the blob, nor the broadcast
\* stream, and resolves with the content of the store; whatever the caller
\* then changes in the value it was handed (the sequence, a list, an item),
\* the store and the blob stay as they are, and so does what a later listAll
\* resolves with.
C16_ListAllReturnsCopies ==
    [][ /\ \A i \in DOMAIN pending, rnd \in Randoms :
              (Settles(i) /\ getTodoListsTimeout(i, rnd))
              => ( /\ NoEffect
                   /\ Resolved(last') => Listed(last'.settled[1].response) = Elements(todos) )
        /\ (last' # last /\ CallerStep)
              => ( /\ todos' = todos
                   /\ storage' = storage
                   /\ Listed(copyLists(todos')) = Listed(copyLists(todos)) ) ]_vars

\* The caller has rewritten an item of the value it was handed, and the
\* store still holds the item as it was.
C16_Witness ==
    /\ HoldsLists
    /\ Len(todos) >= 1 /\ Len(Held.elems) >= 1
    /\ todos[1].items # << >> /\ Held.elems[1].items.elems # << >>
    /\ todos[1].items[1] = TodoA
    /\ Held.elems[1].items.elems[1].value = TodoC

\* What the claims C17 say of a moveTodo step: the items of the list read as
\* before, the blob is the serialized lists, one moveTodo message went out.
SameIndexMoveOutcome(c) ==
    /\ Len(todos') = Len(todos)
    /\ readAll(todos'[c.listIndex + 1].items) = readAll(todos[c.listIndex + 1].items)
    /\ storage' = Blob(stringify(todos'))
    /\ last'.dispatched = << MessageOf(c) >>

\* C17 (as stated): moveItem with a valid listIndex and sourceIndex ==
\* destIndex leaves the item sequence of the list unchanged, and still writes
\* the persisted blob and broadcasts one MoveItem message (the call passing
\* its sample, the storage taking the write).
C17_SameIndexMove ==
    [][\A i \in DOMAIN pending, rnd \in Randoms, setItemThrows \in BOOLEAN :
          ( /\ pending[i].op = "moveTodo"
            /\ pending[i].sourceIndex = pending[i].destIndex
            /\ ValidList(todos, pending[i].listIndex)
            /\ rnd < successRate
            /\ ~setItemThrows
            /\ MutatingTimeout(i, rnd, setItemThrows) )
          => SameIndexMoveOutcome(pending[i])]_vars

\* C17 (amended): the same of a moveItem with a valid listIndex and a valid
\* sourceIndex equal to destIndex.
C17_ValidSameIndexMove ==
    [][\A i \in DOMAIN pending, rnd \in Randoms, setItemThrows \in BOOLEAN :
          ( /\ pending[i].op = "moveTodo"
            /\ pending[i].sourceIndex = pending[i].destIndex
            /\ ValidItem(todos, pending[i].listIndex, pending[i].sourceIndex)
            /\ rnd < successRate
            /\ ~setItemThrows
            /\ MutatingTimeout(i, rnd, setItemThrows) )
          => (SameIndexMoveOutcome(pending[i]) /\ ResolvedWith(last', TRUE))]_vars

\* [A, B, C] after moveItem(0, 1, 1): still [A, B, C], written and announced.
C17_Witness ==
    /\ last.call = [op |-> "moveTodo", listIndex |-> 0, sourceIndex |-> 1, destIndex |-> 1]
    /\ Resolved(last)
    /\ last.before[1].items = << TodoA, TodoB, TodoC >>
    /\ todos[1].items = << TodoA, TodoB, TodoC >>
    /\ storage = Blob(stringify(todos))
    /\ Len(last.dispatched) = 1

\* C18: a successful addItem(listIndex, item) followed, with no mutation in
\* between, by a successful removeItem(listIndex, k), k the position of the
\* item just added (the item count before the addItem), leaves the list with
\* the item sequence it had before the addItem. (`last` is the callback that
\* ran before this one: all mutations are made by callbacks.)
C18_AddThenRemoveRestores ==
    [][\A i \in DOMAIN pending, rnd \in Randoms, setItemThrows \in BOOLEAN :
          ( /\ pending[i].op = "removeTodo"
            /\ last.call.op = "addTodo"
            /\ Resolved(last)
            /\ pending[i].listIndex = last.call.listIndex
            /\ ValidList(last.before, last.call.listIndex)
            /\ pending[i].todoIndex = Len(last.before[last.call.listIndex + 1].items)
            /\ Resolved(last')
            /\ MutatingTimeout(i, rnd, setItemThrows) )
          => ( /\ Len(todos') = Len(last.before)
               /\ todos'[last.call.listIndex + 1].items
                     = last.before[last.call.listIndex + 1].items )]_vars

\* An item was added to the one-item list [A] and removed again from
\* position 1: the list is [A].
C18_Witness ==
    /\ last.call = [op |-> "removeTodo", listIndex |-> 0, todoIndex |-> 1]
    /\ Resolved(last)
    /\ issued = 2
    /\ Len(last.before[1].items) = 2
    /\ last.before[1].items[2] = TodoA
    /\ todos[1].items = << TodoA >>

\* C19: for every operation that passes its sample and its validation (the
\* storage taking the write), the effects come in the order mutation,
\* persistence write, delivery to every registered listener, and the call
\* resolves after the delivery to the last listener: the blob written is
\* that of the mutated lists, every registration is invoked, each listener
\* sees the blob in step with the lists, and the promise is resolved when all
\* invocations have been made.
C19_MutatePersistDeliverResolve ==
    [][\A i \in DOMAIN pending, rnd \in Randoms, setItemThrows \in BOOLEAN :
          ( /\ rnd < successRate
            /\ ~setItemThrows
            /\ ValidCall(pending[i], todos)
            /\ MutatingTimeout(i, rnd, setItemThrows) )
          => ( /\ storage' = Blob(stringify(todos'))
               /\ Invoked(last') = clients
               /\ \A k \in DOMAIN last'.delivered : last'.delivered[k].persisted
               /\ Resolved(last') => last'.settledAt[1] = Len(clients) )]_vars

\* The timer of pending[i] fires: its callback runs, with some draws.
Expires(i) ==
    \E rnd \in Randoms, setItemThrows \in BOOLEAN :
        \/ getTodoListsTimeout(i, rnd)
        \/ createListTimeout(i, rnd, setItemThrows)
        \/ deleteListTimeout(i, rnd, setItemThrows)
        \/ addTodoTimeout(i, rnd, setItemThrows)
        \/ removeTodoTimeout(i, rnd, setItemThrows)
        \/ moveTodoTimeout(i, rnd, setItemThrows)
        \/ editTodoTimeout(i, rnd, setItemThrows)

\* C20: calls issued concurrently are not served in issue order: whichever
\* timer is armed may be the next to fire. The callback that fired ran as one
\* step on the lists as they were at that moment (last.before): it checked
\* its indices against those lists and mutated those lists. removeItem and
\* deleteList resolve iff their indices were valid then (and sample and
\* storage let them), having taken out exactly the element named; removeItem
\* rejected with 400 has left the lists alone. So the lists are always those
\* of running the callbacks one at a time in the order the timers fired.
C20_AtomicInExpiryOrder ==
    /\ \A i \in DOMAIN pending : ENABLED Expires(i)
    /\ last.call.op \in {"removeTodo", "deleteList"}
       => /\ Resolved(last) <=> (ValidCall(last.call, last.before) /\ ~Rejected(last, 500))
          /\ Resolved(last)
             => todos = IF last.call.op = "deleteList"
                        THEN RemoveAt(last.before, last.call.listIndex + 1)
                        ELSE [last.before EXCEPT ![last.call.listIndex + 1].items =
                                 RemoveAt(@, last.call.todoIndex + 1)]
          /\ (last.call.op = "removeTodo" /\ Rejected(last, 400)) => todos = last.before

\* Two calls are armed at once for a list of two items, removeItem(0, 1)
\* issued first and deleteList(0) second: either may run first, and
\* removeItem finds its list gone if deleteList does.
C20_Witness ==
    /\ pending = << [op |-> "removeTodo", listIndex |-> 0, todoIndex |-> 1],
                    [op |-> "deleteList", listIndex |-> 0] >>
    /\ Len(todos) = 1
    /\ Len(todos[1].items) = 2

\* C21: every issued call settles, with a success response or with an error
\* of code 400 or 500, whatever its arguments, its sample and the listeners
\* do (a listener that throws included). The promise is settled by the timer
\* callback and by nothing else: a callback that has run without settling
\* leaves the call pending forever. (The storage takes every write here.)
C21_EveryCallSettles ==
    [][\A i \in DOMAIN pending, rnd \in Randoms, setItemThrows \in BOOLEAN :
          ( /\ ~setItemThrows
            /\ AnyTimeout(i, rnd, setItemThrows) )
          => ( /\ ~last'.uncaught
               /\ \/ Resolved(last')
                  \/ Rejected(last', 400)
                  \/ Rejected(last', 500) )]_vars

\* How many times x occurs in seq.
Occurrences(seq, x) == Cardinality({k \in DOMAIN seq : seq[k] = x})

\* C22: a successful moveItem only reorders, whatever destIndex is (negative,
\* past the end): the list keeps its length and its multiset of items, and
\* the item moved is the one that was at sourceIndex: taking it out of the
\* new sequence leaves the old sequence without its item at sourceIndex.
\* The other lists are unchanged.
C22_MoveOnlyReorders ==
    [][\A i \in DOMAIN pending, rnd \in Randoms, setItemThrows \in BOOLEAN :
          ( /\ pending[i].op = "moveTodo"
            /\ Resolved(last')
            /\ MutatingTimeout(i, rnd, setItemThrows) )
          => LET c      == pending[i]
                 before == readAll(todos[c.listIndex + 1].items)
                 after  == readAll(todos'[c.listIndex + 1].items)
             IN  /\ Len(todos') = Len(todos)
                 /\ \A l \in DOMAIN todos : l # c.listIndex + 1 => todos'[l] = todos[l]
                 /\ Len(after) = Len(before)
                 /\ \A k \in DOMAIN before :
                       Occurrences(after, before[k]) = Occurrences(before, before[k])
                 /\ \E k \in DOMAIN after :
                       /\ after[k] = before[c.sourceIndex + 1]
                       /\ RemoveAt(after, k) = RemoveAt(before, c.sourceIndex + 1)]_vars

\* [A, B, C] after moveItem(0, 0, -1): [B, A, C]; after moveItem(0, 0, 4)
\* it would be [B, C, A].
C22_Witness ==
    /\ last.call = [op |-> "moveTodo", listIndex |-> 0, sourceIndex |-> 0, destIndex |-> 0 - 1]
    /\ Resolved(last)
    /\ last.before[1].items = << TodoA, TodoB, TodoC >>
    /\ todos[1].items = << TodoB, TodoA, TodoC >>

====
